---- MODULE Spec2Model ----
(***************************************************************************)
(* Smart-Resume-Screener: the ranking pipeline of utils.py (ingestion,     *)
(* keyword filter, similarity selection, optional LLM scoring, final       *)
(* ordering) and the parsed_resumes table it writes.                       *)
(*                                                                         *)
(* Text is a sequence of one-character strings.  Numbers with decimals are *)
(* fixed point: similarity in hundredths, ratings in tenths.               *)
(***************************************************************************)
EXTENDS Integers, Sequences, FiniteSets, TLC

(***************************************************************************)
(* Characters and the str methods the code uses                            *)
(***************************************************************************)
UpperLetters ==
  <<"A","B","C","D","E","F","G","H","I","J","K","L","M",
    "N","O","P","Q","R","S","T","U","V","W","X","Y","Z">>

LowerLetters ==
  <<"a","b","c","d","e","f","g","h","i","j","k","l","m",
    "n","o","p","q","r","s","t","u","v","w","x","y","z">>

Digits == {"0","1","2","3","4","5","6","7","8","9"}

Range(s) == {s[i] : i \in 1..Len(s)}

IsUpper(c) == c \in Range(UpperLetters)

IsAlpha(c) == c \in Range(UpperLetters) \cup Range(LowerLetters)

\* \w of the re module, on the characters the model uses
IsWord(c) == IsAlpha(c) \/ c \in Digits \/ c = "_"

\* \s of the re module / the characters str.strip() removes
IsSpace(c) == c \in {" ", "\n", "\r", "\t"}

IsLineBreak(c) == c \in {"\n", "\r"}

\* str.lower() on one character
LowerChar(c) ==
  IF IsUpper(c)
    THEN LowerLetters[CHOOSE i \in 1..26 : UpperLetters[i] = c]
    ELSE c

\* str.lower()
Lower(s) == [i \in 1..Len(s) |-> LowerChar(s[i])]

\* s[a..b], empty when b < a
Slice(s, a, b) == IF b < a THEN <<>> ELSE SubSeq(s, a, b)

\* str.strip()
Strip(s) ==
  LET keep == {i \in 1..Len(s) : ~IsSpace(s[i])}
  IN  IF keep = {} THEN <<>>
      ELSE Slice(s, CHOOSE i \in keep : \A j \in keep : i <= j,
                    CHOOSE i \in keep : \A j \in keep : j <= i)

\* str.endswith(suffix)
EndsWith(s, suffix) ==
  /\ Len(suffix) <= Len(s)
  /\ Slice(s, Len(s) - Len(suffix) + 1, Len(s)) = suffix

\* str.split(sep) for a one-character separator
RECURSIVE Split(_, _)
Split(s, sep) ==
  LET hits == {i \in 1..Len(s) : s[i] = sep}
  IN  IF hits = {} THEN <<s>>
      ELSE LET i == CHOOSE h \in hits : \A g \in hits : h <= g
           IN  <<Slice(s, 1, i - 1)>> \o Split(Slice(s, i + 1, Len(s)), sep)

\* sep.join(parts)
RECURSIVE Join(_, _)
Join(parts, sep) ==
  IF parts = <<>> THEN <<>>
  ELSE IF Len(parts) = 1 THEN parts[1]
  ELSE parts[1] \o sep \o Join(Tail(parts), sep)

\* literal occurrence of needle in s at position i (1-based)
OccursAt(s, needle, i) ==
  /\ i >= 1
  /\ i + Len(needle) - 1 <= Len(s)
  /\ \A k \in 1..Len(needle) : s[i + k - 1] = needle[k]

\* needle in s
Contains(s, needle) == \E i \in 1..(Len(s) + 1) : OccursAt(s, needle, i)

Min(S) == CHOOSE x \in S : \A y \in S : x <= y

Max(S) == CHOOSE x \in S : \A y \in S : y <= x

(***************************************************************************)
(* The fragment of the re module the code uses: a pattern is a sequence of *)
(* items, each a repetition of a character class (greedy or lazy) or an    *)
(* alternation of sub-patterns.  Positions are 1-based indices of the next *)
(* character to read.  MatchSeq follows the backtracking order of re:      *)
(* greedy items try the longest repetition first, lazy items the shortest, *)
(* alternations their branches left to right.                              *)
(***************************************************************************)
\* {lo,hi} repetitions of a character of cls (neg: of a character not in cls);
\* hi = -1 is "no upper limit"
Rep(cls, neg, lo, hi, lazy) ==
  [cls |-> cls, neg |-> neg, lo |-> lo, hi |-> hi, lazy |-> lazy,
   alts |-> <<>>, word |-> <<>>, ignorecase |-> FALSE]

One(cls) == Rep(cls, FALSE, 1, 1, FALSE)

Star(cls) == Rep(cls, FALSE, 0, -1, FALSE)

Plus(cls) == Rep(cls, FALSE, 1, -1, FALSE)

\* (?:a|b|...), each branch a pattern
Alt(branches) ==
  [cls |-> {}, neg |-> FALSE, lo |-> 0, hi |-> 0, lazy |-> FALSE,
   alts |-> branches, word |-> <<>>, ignorecase |-> FALSE]

\* re.escape(word): the characters of a non-empty word, literally; with
\* re.IGNORECASE in either case
Lit(w, ignorecase) ==
  << [cls |-> {}, neg |-> FALSE, lo |-> 0, hi |-> 0, lazy |-> FALSE,
      alts |-> <<>>, word |-> w, ignorecase |-> ignorecase] >>

InClass(c, it) == (c \in it.cls) # it.neg

\* how many characters from p on belong to the item's class, capped at hi
RunLen(t, p, it) ==
  LET stop == {q \in p..Len(t) : ~InClass(t[q], it)}
      run  == IF stop = {} THEN Len(t) - p + 1 ELSE Min(stop) - p
  IN  IF it.hi = -1 \/ run < it.hi THEN run ELSE it.hi

\* the literal word of item it occurs in t at p
WordAt(t, p, it) ==
  /\ p + Len(it.word) - 1 <= Len(t)
  /\ \A k \in 1..Len(it.word) :
       IF it.ignorecase THEN LowerChar(t[p + k - 1]) = LowerChar(it.word[k])
                        ELSE t[p + k - 1] = it.word[k]

\* every position at which some match of items that starts in P can end
RECURSIVE Ends(_, _, _)
Ends(t, P, items) ==
  IF items = <<>> \/ P = {} THEN P
  ELSE LET it == Head(items)
           Q  == IF it.alts # <<>>
                   THEN UNION {Ends(t, P, it.alts[k]) : k \in 1..Len(it.alts)}
                 ELSE IF it.word # <<>>
                   THEN {p + Len(it.word) : p \in {q \in P : WordAt(t, q, it)}}
                 ELSE UNION {{p + n : n \in it.lo..RunLen(t, p, it)} : p \in P}
       IN  Ends(t, Q, Tail(items))

CanMatch(t, p, items, accept) == Ends(t, {p}, items) \cap accept # {}

\* the repetition count re tries first among those of S: the least for a lazy
\* item, the greatest for a greedy one
Preferred(S, lazy) == IF lazy THEN Min(S) ELSE Max(S)

\* end position of the first match of items at p in backtracking order whose
\* end lies in accept; 0 when there is none
RECURSIVE MatchSeq(_, _, _, _)
MatchSeq(t, p, items, accept) ==
  IF items = <<>> THEN (IF p \in accept THEN p ELSE 0)
  ELSE IF ~CanMatch(t, p, items, accept) THEN 0
  ELSE
    LET it   == Head(items)
        rest == Tail(items)
    IN  IF it.alts # <<>>
          THEN MatchSeq(t, p,
                        it.alts[Min({k \in 1..Len(it.alts) :
                                       CanMatch(t, p, it.alts[k] \o rest, accept)})]
                          \o rest,
                        accept)
        ELSE IF it.word # <<>>
          THEN MatchSeq(t, p + Len(it.word), rest, accept)
        ELSE MatchSeq(t,
                      p + Preferred({n \in it.lo..RunLen(t, p, it) :
                                       CanMatch(t, p + n, rest, accept)}, it.lazy),
                      rest, accept)

Positions(t) == 1..(Len(t) + 1)

\* the match object for the leftmost of the start positions starts:
\* <<start, end>>, or <<0, 0>> (None) when there is none
MatchAtFirst(t, items, accept, starts) ==
  IF starts = {} THEN <<0, 0>>
  ELSE <<Min(starts), MatchSeq(t, Min(starts), items, accept)>>

\* re.search from position from on: <<start, end>> of the leftmost match that
\* starts at a position of anchors, <<0, 0>> when there is none
SearchFrom(t, from, items, anchors, accept) ==
  MatchAtFirst(t, items, accept,
               {i \in anchors : i >= from /\ CanMatch(t, i, items, accept)})

\* the matches from match m on, left to right
RECURSIVE FindAllAfter(_, _, _)
FindAllAfter(t, items, m) ==
  IF m[1] = 0 THEN <<>>
  ELSE <<m>> \o FindAllAfter(t, items,
                             SearchFrom(t, IF m[2] > m[1] THEN m[2] ELSE m[2] + 1,
                                        items, Positions(t), Positions(t)))

\* re.findall: the non-overlapping matches left to right, as <<start, end>>
FindAllFrom(t, from, items) ==
  FindAllAfter(t, items, SearchFrom(t, from, items, Positions(t), Positions(t)))

(***************************************************************************)
(* extract_email                                                           *)
(***************************************************************************)
EmailLocalChars ==
  Range(UpperLetters) \cup Range(LowerLetters) \cup Digits \cup {".", "_", "%", "+", "-"}

EmailDomainChars ==
  Range(UpperLetters) \cup Range(LowerLetters) \cup Digits \cup {".", "-"}

\* [a-zA-Z0-9._%+-]+@[a-zA-Z0-9.-]+\.[a-zA-Z]{2,}
email_pattern ==
  << Plus(EmailLocalChars), One({"@"}), Plus(EmailDomainChars), One({"."}),
     Rep(Range(UpperLetters) \cup Range(LowerLetters), FALSE, 2, -1, FALSE) >>

NoEmailFound == <<"N","o"," ","e","m","a","i","l"," ","f","o","u","n","d">>

\* match.group(0) if match else default
GroupOr(text, m, default) ==
  IF m[1] = 0 THEN default ELSE Slice(text, m[1], m[2] - 1)

extract_email(text) ==
  IF Strip(text) = <<>> THEN NoEmailFound
  ELSE GroupOr(text,
               SearchFrom(text, 1, email_pattern, Positions(text), Positions(text)),
               NoEmailFound)

\* t from position from on with the matches from m on replaced by repl
RECURSIVE SubAfter(_, _, _, _, _, _)
SubAfter(t, from, items, anchors, repl, m) ==
  IF m[1] = 0 THEN Slice(t, from, Len(t))
  ELSE Slice(t, from, m[1] - 1) \o repl
       \o SubAfter(t, m[2], items, anchors, repl,
                   SearchFrom(t, m[2], items, anchors, Positions(t)))

\* re.sub(pattern, repl, t) from position from on, for a pattern that cannot
\* match the empty string
SubFrom(t, from, items, anchors, repl) ==
  SubAfter(t, from, items, anchors, repl,
           SearchFrom(t, from, items, anchors, Positions(t)))

\* positions where ^ matches under re.MULTILINE
LineStarts(t) == {1} \cup {i + 1 : i \in {j \in 1..Len(t) : t[j] = "\n"}}

\* positions where $ matches under re.MULTILINE
LineEnds(t) == {Len(t) + 1} \cup {j \in 1..Len(t) : t[j] = "\n"}

SpaceChars == {" ", "\n", "\r", "\t"}

LineBreakChars == {"\n", "\r"}

WordChars == Range(UpperLetters) \cup Range(LowerLetters) \cup Digits \cup {"_"}

\* the bullet character U+2022
Bullet == "U+2022"

\* .*? under re.DOTALL
LazyAny == Rep({}, TRUE, 0, -1, TRUE)

(***************************************************************************)
(* extract_section_text                                                    *)
(***************************************************************************)
NotFound == <<"N","o","t"," ","F","o","u","n","d">>

\* r'[\r\n]{1,3}\s*[\-\*\.]*\s*' + re.escape(name) + r'\s*[:\-\.]{0,5}\s*[\r\n]{1,3}'
pattern_start(name) ==
  << Rep(LineBreakChars, FALSE, 1, 3, FALSE), Star(SpaceChars),
     Star({"-", "*", "."}), Star(SpaceChars) >>
  \o Lit(name, TRUE)
  \o << Star(SpaceChars), Rep({":", "-", "."}, FALSE, 0, 5, FALSE),
        Star(SpaceChars), Rep(LineBreakChars, FALSE, 1, 3, FALSE) >>

\* [r'\s*' + re.escape(name.strip()) + r'\s*' for name in next_section_names
\*  if name.strip() != section_name_normalized]
stop_patterns(section_name_normalized, next_section_names) ==
  LET others == SelectSeq(next_section_names,
                          LAMBDA name : Strip(name) # section_name_normalized)
  IN  [k \in 1..Len(others) |->
         <<Star(SpaceChars)>> \o Lit(Strip(others[k]), TRUE) \o <<Star(SpaceChars)>>]

\* positions where the lookahead (?=\s*(stop|...)|$) succeeds
StopPositions(t, stops) ==
  {p \in Positions(t) :
     \/ CanMatch(t, p, <<Star(SpaceChars), Alt(stops)>>, Positions(t))
     \/ p \in LineEnds(t)}

\* re.sub(cls{lo,}, repl, s) for a character class cls
RECURSIVE SubRuns(_, _, _, _)
SubRuns(s, cls, lo, repl) ==
  LET hits == {i \in 1..Len(s) : s[i] \in cls}
  IN  IF hits = {} THEN s
      ELSE LET from == Min(hits)
               run  == RunLen(s, from, Star(cls))
               rest == SubRuns(Slice(s, from + run, Len(s)), cls, lo, repl)
           IN  Slice(s, 1, from - 1)
               \o (IF run >= lo THEN repl ELSE Slice(s, from, from + run - 1))
               \o rest

\* re.sub(r'[\-\*\U+2022]', '', s)
RemoveChars(s, cls) == SelectSeq(s, LAMBDA c : c \notin cls)

\* match.group(1).strip() with the runs of two or more line breaks replaced
\* by one, or "Not Found".  The group (.*?) starts where pattern_start ends on
\* the first path of the backtracking order: the rest of the pattern succeeds
\* from every position, because the lookahead holds at the end of the text.
SectionContent(text_normalized, start, match) ==
  IF match[1] # 0
    THEN Strip(SubRuns(
           Strip(Slice(text_normalized,
                       MatchSeq(text_normalized, match[1], start,
                                Positions(text_normalized)),
                       match[2] - 1)),
           LineBreakChars, 2, <<"\n">>))
    ELSE NotFound

\* re.search(full_pattern, text_normalized) and what is made of the match
SectionOf(text_normalized, section_name_normalized, next_section_names) ==
  SectionContent(
    text_normalized,
    pattern_start(section_name_normalized),
    SearchFrom(text_normalized, 1,
               pattern_start(section_name_normalized) \o <<LazyAny>>,
               Positions(text_normalized),
               StopPositions(text_normalized,
                             stop_patterns(section_name_normalized,
                                           next_section_names))))

extract_section_text(text, section_name, next_section_names) ==
  SectionOf(RemoveChars(SubRuns(text, LineBreakChars, 1, <<"\n">>), {"-", "*", Bullet}),
            Strip(section_name), next_section_names)

(***************************************************************************)
(* parse_resume_sections                                                   *)
(***************************************************************************)
ALL_SECTIONS ==
  << <<"S","K","I","L","L","S">>,
     <<"T","E","C","H","N","I","C","A","L"," ","S","K","I","L","L","S">>,
     <<"E","X","P","E","R","I","E","N","C","E">>,
     <<"W","O","R","K"," ","H","I","S","T","O","R","Y">>,
     <<"P","R","O","F","E","S","S","I","O","N","A","L"," ","E","X","P","E","R","I","E","N","C","E">>,
     <<"E","D","U","C","A","T","I","O","N">>,
     <<"P","R","O","J","E","C","T","S">>,
     <<"C","E","R","T","I","F","I","C","A","T","I","O","N">>,
     <<"A","C","H","I","E","V","E","M","E","N","T","S">>,
     <<"S","U","M","M","A","R","Y">>,
     <<"C","O","N","T","A","C","T">>,
     <<"R","E","F","E","R","E","N","C","E","S">> >>

NotSpecified == <<"N","o","t"," ","s","p","e","c","i","f","i","e","d">>

\* ((?:B\.\s?Tech|M\.\s?S|Ph\.\s?D|Bachelor|Master|Degree|Diploma|College|University)
\*  [\s\w\d,&-]*?(?:\d{4}|\d{2,4}[-\/]\d{2,4})), re.IGNORECASE
education_pattern ==
  << Alt(<< Lit(<<"B">>, TRUE) \o <<One({"."}), Rep(SpaceChars, FALSE, 0, 1, FALSE)>>
              \o Lit(<<"T","e","c","h">>, TRUE),
            Lit(<<"M">>, TRUE) \o <<One({"."}), Rep(SpaceChars, FALSE, 0, 1, FALSE)>>
              \o Lit(<<"S">>, TRUE),
            Lit(<<"P","h">>, TRUE) \o <<One({"."}), Rep(SpaceChars, FALSE, 0, 1, FALSE)>>
              \o Lit(<<"D">>, TRUE),
            Lit(<<"B","a","c","h","e","l","o","r">>, TRUE),
            Lit(<<"M","a","s","t","e","r">>, TRUE),
            Lit(<<"D","e","g","r","e","e">>, TRUE),
            Lit(<<"D","i","p","l","o","m","a">>, TRUE),
            Lit(<<"C","o","l","l","e","g","e">>, TRUE),
            Lit(<<"U","n","i","v","e","r","s","i","t","y">>, TRUE) >>),
     Rep(SpaceChars \cup WordChars \cup {",", "&", "-"}, FALSE, 0, -1, TRUE),
     Alt(<< <<Rep(Digits, FALSE, 4, 4, FALSE)>>,
            <<Rep(Digits, FALSE, 2, 4, FALSE), One({"-", "/"}),
              Rep(Digits, FALSE, 2, 4, FALSE)>> >>) >>

\* (\w+\s+(engineer|developer|analyst|scientist|manager|consultant|intern)
\*  [\s\w\d,-]*?(at|on|for|\|)\s*[\w\s\&-]+), re.IGNORECASE
experience_pattern ==
  << Plus(WordChars), Plus(SpaceChars),
     Alt(<< Lit(<<"e","n","g","i","n","e","e","r">>, TRUE),
            Lit(<<"d","e","v","e","l","o","p","e","r">>, TRUE),
            Lit(<<"a","n","a","l","y","s","t">>, TRUE),
            Lit(<<"s","c","i","e","n","t","i","s","t">>, TRUE),
            Lit(<<"m","a","n","a","g","e","r">>, TRUE),
            Lit(<<"c","o","n","s","u","l","t","a","n","t">>, TRUE),
            Lit(<<"i","n","t","e","r","n">>, TRUE) >>),
     Rep(SpaceChars \cup WordChars \cup {",", "-"}, FALSE, 0, -1, TRUE),
     Alt(<< Lit(<<"a","t">>, TRUE), Lit(<<"o","n">>, TRUE),
            Lit(<<"f","o","r">>, TRUE), <<One({"|"})>> >>),
     Star(SpaceChars),
     Plus(WordChars \cup SpaceChars \cup {"&", "-"}) >>

\* ^\s*[\-\*]*(Languages|...|Technical)\s*[:\-\.]{0,2}\s*[\r\n], re.IGNORECASE
SUB_HEADER_PATTERN ==
  << Star(SpaceChars), Star({"-", "*"}),
     Alt(<< Lit(<<"L","a","n","g","u","a","g","e","s">>, TRUE),
            Lit(<<"L","i","b","r","a","r","i","e","s","/","F","r","a","m","e","w","o","r","k","s">>, TRUE),
            Lit(<<"O","t","h","e","r","s">>, TRUE),
            Lit(<<"C","o","r","e"," ","L","i","b","r","a","r","i","e","s">>, TRUE),
            Lit(<<"M","L","/","D","L"," ","F","r","a","m","e","w","o","r","k","s">>, TRUE),
            Lit(<<"D","a","t","a"," ","L","i","b","r","a","r","i","e","s">>, TRUE),
            Lit(<<"C","l","o","u","d"," ","&"," ","D","e","v","O","p","s">>, TRUE),
            Lit(<<"T","o","o","l","s">>, TRUE),
            Lit(<<"C","o","n","c","e","p","t","s">>, TRUE),
            Lit(<<"P","r","o","g","r","a","m","m","i","n","g"," ","L","a","n","g","u","a","g","e","s">>, TRUE),
            Lit(<<"C","o","r","e">>, TRUE),
            Lit(<<"D","e","e","p"," ","L","e","a","r","n","i","n","g">>, TRUE),
            Lit(<<"T","e","c","h","n","i","c","a","l">>, TRUE) >>),
     Star(SpaceChars), Rep({":", "-", "."}, FALSE, 0, 2, FALSE), Star(SpaceChars),
     One(LineBreakChars) >>

\* the matches found of text, stripped, empty ones dropped
StrippedMatches(text, found) ==
  SelectSeq([k \in 1..Len(found) |-> Strip(Slice(text, found[k][1], found[k][2] - 1))],
            LAMBDA m : m # <<>>)

\* [m.strip() for m in re.findall(pattern, text)], empty ones dropped
Mentions(text, pattern) == StrippedMatches(text, FindAllFrom(text, 1, pattern))

\* x or "Not specified"
OrNotSpecified(x) == IF x = <<>> THEN NotSpecified ELSE x

\* the first of texts that is not "Not Found", "Not Found" when all are
FirstNotNotFound(texts) ==
  IF \A k \in 1..Len(texts) : texts[k] = NotFound THEN NotFound
  ELSE texts[Min({k \in 1..Len(texts) : texts[k] # NotFound})]

\* the first of the headings that extract_section_text finds
FirstFound(text, headings) ==
  FirstNotNotFound([k \in 1..Len(headings) |->
                      extract_section_text(text, headings[k], ALL_SECTIONS)])

\* re.sub(SUB_HEADER_PATTERN, ' ', skills_text, flags=re.MULTILINE).strip()
CleanedSkillsText(skills_text) ==
  Strip(SubFrom(skills_text, 1, SUB_HEADER_PATTERN, LineStarts(skills_text), <<" ">>))

\* universal_skills if it is neither empty nor "Not Found", else "Not specified"
SkillsOrNotSpecified(universal_skills) ==
  IF universal_skills # <<>> /\ universal_skills # NotFound
    THEN universal_skills ELSE NotSpecified

parse_resume_sections(text) ==
  [ education  |->
      OrNotSpecified(Join(
        Mentions(FirstFound(text, <<<<"E","D","U","C","A","T","I","O","N">>, <<"A","C","A","D","E","M","I","C"," ","Q","U","A","L","I","F","I","C","A","T","I","O","N","S">>>>),
                 education_pattern),
        <<" ", "|", " ">>)),
    experience |->
      OrNotSpecified(Join(
        Mentions(FirstFound(text, <<<<"P","R","O","F","E","S","S","I","O","N","A","L"," ","E","X","P","E","R","I","E","N","C","E">>, <<"W","O","R","K"," ","E","X","P","E","R","I","E","N","C","E">>, <<"E","X","P","E","R","I","E","N","C","E">>>>),
                 experience_pattern),
        <<" ", "|", " ">>)),
    skills     |->
      SkillsOrNotSpecified(Strip(SubRuns(
        CleanedSkillsText(FirstFound(text, <<<<"S","K","I","L","L","S">>, <<"T","E","C","H","N","I","C","A","L"," ","S","K","I","L","L","S">>>>)),
        LineBreakChars, 1, <<",", " ">>))) ]

(***************************************************************************)
(* Text extraction                                                         *)
(***************************************************************************)
NoContent == <<"N","o"," ","c","o","n","t","e","n","t">>

\* A byte string is a sequence of characters; "0xFF" stands for a byte that is
\* not valid UTF-8.  bytes.decode("utf-8", errors="ignore")
Decode(bytes) == SelectSeq(bytes, LAMBDA b : b # "0xFF")

\* A PDF byte string starts with a header element and continues with the text
\* of its pages, separated by "\f".  "%PDF" heads a well-formed file, "%PDF?" a
\* damaged one that only PyPDF2 can still read; both libraries raise on
\* anything else.
PdfPlumberRaises(bytes) == bytes = <<>> \/ bytes[1] # "%PDF"

PyPDF2Raises(bytes) == bytes = <<>> \/ bytes[1] \notin {"%PDF", "%PDF?"}

\* text += page.extract_text() or "" over the pages
PdfPagesText(bytes) == Join(Split(Tail(bytes), "\f"), <<>>)

\* x or "No content"
OrNoContent(x) == IF x = <<>> THEN NoContent ELSE x

\* the function without the except branch that tries PyPDF2
ExtractWithoutSecondBackend(bytes) ==
  IF ~PdfPlumberRaises(bytes) THEN OrNoContent(Strip(PdfPagesText(bytes)))
  ELSE NoContent

extract_text_from_pdf(bytes) ==
  IF ~PdfPlumberRaises(bytes) THEN OrNoContent(Strip(PdfPagesText(bytes)))
  ELSE IF ~PyPDF2Raises(bytes) THEN OrNoContent(Strip(PdfPagesText(bytes)))
  ELSE NoContent

(***************************************************************************)
(* The parsed_resumes table: a sequence of rows in rowid order.  A nullable *)
(* value is <<>> (NULL / None) or <<v>>.                                   *)
(***************************************************************************)
NULL == <<>>

Filenames(table) == {table[i].filename : i \in 1..Len(table)}

NewRow(data) ==
  [ filename   |-> data.ID,
    email      |-> data.email,
    skills     |-> data.parsed_data.skills,
    experience |-> data.parsed_data.experience,
    education  |-> data.parsed_data.education,
    fit_score  |-> data.fit_score,
    raw_text   |-> data.Resume_str,
    file_bytes |-> data.file_bytes ]

\* a plain INSERT into a table without the UNIQUE constraint
InsertWithoutReplace(table, data) == Append(table, NewRow(data))

\* INSERT OR IGNORE: a row that conflicts on filename is kept
InsertOrIgnore(table, data) ==
  IF \E i \in 1..Len(table) : table[i].filename = data.ID
    THEN table
    ELSE Append(table, NewRow(data))

\* INSERT OR REPLACE INTO parsed_resumes ...: filename is UNIQUE, so the rows
\* that conflict on it are deleted and the new row is added
save_parsed_resume(table, data) ==
  Append(SelectSeq(table, LAMBDA row : row.filename # data.ID), NewRow(data))

\* UPDATE parsed_resumes SET fit_score = ? WHERE filename = ?
UpdateFitScore(table, fit_score, filename) ==
  [i \in 1..Len(table) |->
     IF table[i].filename = filename
       THEN [table[i] EXCEPT !.fit_score = fit_score]
       ELSE table[i]]

(***************************************************************************)
(* process_uploaded_files                                                  *)
(***************************************************************************)
\* an uploaded file; isNone marks a None entry of the list
UploadedFile(name, bytes) == [isNone |-> FALSE, name |-> name, bytes |-> bytes]

NoneEntry == [isNone |-> TRUE, name |-> <<>>, bytes |-> <<>>]

IsTxt(filename) == EndsWith(Lower(filename), <<".","t","x","t">>)

IsPdf(filename) == EndsWith(Lower(filename), <<".","p","d","f">>)

\* the loop without the test of the file type
IngestibleWhateverTheType(resume) ==
  /\ ~resume.isNone
  /\ Len(resume.bytes) # 0

\* the body of the loop reaches data.append(entry) for this file
Ingestible(resume) ==
  /\ ~resume.isNone
  /\ Len(resume.bytes) # 0
  /\ IsTxt(resume.name) \/ IsPdf(resume.name)

ExtractText(resume) ==
  IF IsTxt(resume.name) THEN OrNoContent(Strip(Decode(resume.bytes)))
  ELSE extract_text_from_pdf(resume.bytes)

Entry(resume) ==
  LET text == ExtractText(resume)
  IN  [ ID          |-> resume.name,
        Resume_str  |-> text,
        email       |-> extract_email(text),
        parsed_data |-> parse_resume_sections(text),
        file_bytes  |-> resume.bytes,
        fit_score   |-> NULL ]

(***************************************************************************)
(* filter_resumes                                                          *)
(***************************************************************************)
\* One keyword is compiled as a regular expression by str.contains(): "."
\* matches any character but a line break, every other character of the
\* keywords of the model matches itself.  The keyword matches t at position i:
KeywordMatchesAt(t, k, i) ==
  /\ i + Len(k) - 1 <= Len(t)
  /\ \A j \in 1..Len(k) :
       IF k[j] = "." THEN t[i + j - 1] # "\n" ELSE t[i + j - 1] = k[j]

\* [k.strip().lower() for k in keywords.split(",")]
KeywordsList(keywords) ==
  LET parts == Split(keywords, ",")
  IN  [i \in 1..Len(parts) |-> Lower(Strip(parts[i]))]

\* df["Resume_str"].str.lower().str.contains("|".join(keywords_list)) for one
\* row: re.search of the alternation of the keywords
MatchesKeywords(resume_str, keywords_list) ==
  LET t == Lower(resume_str)
  IN  \E n \in 1..Len(keywords_list), i \in 1..(Len(t) + 1) :
        KeywordMatchesAt(t, keywords_list[n], i)

filter_resumes(df, keywords) ==
  IF Strip(keywords) # <<>>
    THEN SelectSeq(df, LAMBDA row :
                         MatchesKeywords(row.Resume_str, KeywordsList(keywords)))
    ELSE df

(***************************************************************************)
(* Inputs of the model                                                     *)
(***************************************************************************)
MaxBatch == 2

MaxTopN == 2

NameTxt == <<"a",".","t","x","t">>

NamePdf == <<"B",".","P","D","F">>

NameDoc == <<"c",".","d","o","c">>

\* "Py a@b.cc\nSKILLS\nGo"
BytesA == <<"P","y"," ","a","@","b",".","c","c","\n","S","K","I","L","L","S","\n","G","o">>

\* an undecodable byte, then "x\nEDUCATION\nDegree 2020"
BytesB == <<"0xFF">> \o <<"x","\n","E","D","U","C","A","T","I","O","N","\n","D","e","g","r","e","e"," ","2","0","2","0">>

\* a well-formed PDF with the pages "Py" and " dev"
BytesPdf == <<"%PDF">> \o <<"P","y","\f"," ","d","e","v">>

UploadedFiles ==
  { NoneEntry,
    UploadedFile(NameTxt, <<>>),
    UploadedFile(NameDoc, BytesA),
    UploadedFile(NameTxt, BytesA),
    UploadedFile(NameTxt, BytesB),
    UploadedFile(NamePdf, BytesPdf) }

Batches == UNION {[1..n -> UploadedFiles] : n \in 0..MaxBatch}

JobPython == <<"P","y"," ","d","e","v">>

JobDegree == <<"G","o"," ","d","e","g","r","e","e">>

JobDescs == {JobPython, JobDegree}

\* "" and " PY, zz"
KeywordInputs == {<<>>, <<" ","P","Y",","," ","z","z">>}

TopNs == 0..MaxTopN

ApiKeys == {<<>>, <<"s","k">>}

\* a PDF that only PyPDF2 can read, with the page "Go"
BytesPdfDamaged == <<"%PDF?">> \o <<"G","o">>

\* not a PDF
BytesPdfCorrupt == <<"x","y">>

\* a well-formed PDF whose pages have no text
BytesPdfBlank == <<"%PDF">> \o <<" ","\f"," ">>

\* files for every way of the text extraction
ExtractionFiles ==
  { UploadedFile(NameTxt, BytesA),
    UploadedFile(NamePdf, BytesPdf),
    UploadedFile(<<"d",".","p","d","f">>, BytesPdfDamaged),
    UploadedFile(<<"e",".","p","d","f">>, BytesPdfCorrupt),
    UploadedFile(<<"f",".","p","d","f">>, BytesPdfBlank),
    UploadedFile(<<"g",".","t","x","t">>, <<" ","\n">>),
    UploadedFile(<<"h",".","t","x","t">>, <<"0xFF","0xFF">>) }

ExtractionBatches == UNION {[1..n -> ExtractionFiles] : n \in 0..MaxBatch}

\* entry of every file of the model, computed once
Entries ==
  [resume \in {r \in UploadedFiles \cup ExtractionFiles : Ingestible(r)} |->
     Entry(resume)]

\* the table after the loop body has run for one ingestible file
PersistEntry(table, entry) ==
  save_parsed_resume(
    IF entry.fit_score # NULL
      THEN UpdateFitScore(table, entry.fit_score, entry.ID)
      ELSE table,
    entry)

\* data and the table after the loop body has run for one ingestible file
AppendEntry(before, entry) ==
  [ data  |-> Append(before.data, entry),
    table |-> PersistEntry(before.table, entry) ]

\* the loop with break in the place of continue
RECURSIVE ProcessUntilFirstSkipped(_, _)
ProcessUntilFirstSkipped(uploaded_resumes, table) ==
  IF uploaded_resumes = <<>> \/ ~Ingestible(uploaded_resumes[1])
    THEN [data |-> <<>>, table |-> table]
    ELSE LET entry == Entries[uploaded_resumes[1]]
             rest  == ProcessUntilFirstSkipped(Tail(uploaded_resumes),
                                               PersistEntry(table, entry))
         IN  [data |-> <<entry>> \o rest.data, table |-> rest.table]

\* [data |-> the list of entries, table |-> the table] after the loop
RECURSIVE process_uploaded_files(_, _)
process_uploaded_files(uploaded_resumes, table) ==
  IF uploaded_resumes = <<>> THEN [data |-> <<>>, table |-> table]
  ELSE LET n      == Len(uploaded_resumes)
           before == process_uploaded_files(SubSeq(uploaded_resumes, 1, n - 1), table)
           resume == uploaded_resumes[n]
       IN  IF Ingestible(resume)
             THEN AppendEntry(before, Entries[resume])
             ELSE before

(***************************************************************************)
(* The embedding model and the key-match vectorizer are libraries; each is *)
(* represented by a fixed function of the texts it is given.               *)
(***************************************************************************)
\* cosine_similarity(model.encode(resume), model.encode(job)), in hundredths
CosineSimilarity(resume_str, job_desc_text) ==
  LET text == Lower(resume_str)
  IN  IF job_desc_text = JobPython
        THEN (IF Contains(text, <<"d","e","v">>) THEN 87
              ELSE IF Contains(text, <<"p","y">>) THEN 60
              ELSE -10)
        ELSE (IF Contains(text, <<"d","e","g","r","e","e">>) THEN 60
              ELSE 33)

\* the positions of s where a maximal run of word characters starts
WordStarts(s) ==
  {i \in 1..Len(s) : s[i] \in WordChars /\ (i = 1 \/ s[i - 1] \notin WordChars)}

\* the maximal run of word characters of s that starts at i
WordFrom(s, i) == Slice(s, i, i + RunLen(s, i, Star(WordChars)) - 1)

\* token_pattern \b\w{2,}\b: the maximal runs of word characters of s that
\* have at least two characters
WordsOf(s) == {w \in {WordFrom(s, i) : i \in WordStarts(s)} : Len(w) >= 2}

NoSignificantMatches == <<"N","o"," ","s","i","g","n","i","f","i","c","a","n","t"," ","m","a","t","c","h","e","s">>

\* the words of job that start at the first top_n positions of starts
TopTerms(job, starts, top_n) ==
  [k \in 1..Min({top_n, Cardinality(starts)}) |->
     WordFrom(job, CHOOSE i \in starts : Cardinality({j \in starts : j < i}) = k - 1)]

\* matches if matches else ["No significant matches"]
OrNoSignificantMatches(matches) ==
  IF matches = <<>> THEN <<NoSignificantMatches>> ELSE matches

\* the terms of job that are among resume_words, at most 3
KeyMatchesAmong(job, resume_words) ==
  OrNoSignificantMatches(
    TopTerms(job, {i \in WordStarts(job) : WordFrom(job, i) \in resume_words}, 3))

\* The terms the job description and the resume share, at most top_n = 3 of
\* them, in the order of the job description (the vectorizer orders them by
\* their summed TF-IDF weight).
extract_key_matches(resume_text, job_desc_text) ==
  KeyMatchesAmong(Lower(job_desc_text), WordsOf(Lower(resume_text)))

(***************************************************************************)
(* get_llm_score_and_justification                                         *)
(*                                                                         *)
(* A justification is a sequence of phrases and characters.  What the chat *)
(* completion does is a reply: the call raises (network, authentication,   *)
(* quota), or it returns a content that is or is not a JSON object, with   *)
(* or without the two keys.  Scores are in tenths.                         *)
(***************************************************************************)
Reply(raises, json, fit_score, justification) ==
  [raises |-> raises, json |-> json, fit_score |-> fit_score,
   justification |-> justification]

ReplyApiError == Reply(TRUE, FALSE, NULL, NULL)

ReplyNotJson == Reply(FALSE, FALSE, NULL, NULL)

ReplyEmptyObject == Reply(FALSE, TRUE, NULL, NULL)

ReplyScore(score) == Reply(FALSE, TRUE, <<score>>, << <<"Good fit.">> >>)

LLMReplies ==
  {ReplyApiError, ReplyNotJson, ReplyEmptyObject, ReplyScore(30), ReplyScore(120)}

LLMFailureMarker == "LLM API call failed"

get_llm_score_and_justification(api_key, reply) ==
  IF api_key = <<>>
    THEN [score |-> 0, justification |-> <<"OpenAI API key not provided.">>]
  ELSE IF reply.raises \/ ~reply.json
    THEN [score |-> 0, justification |-> <<LLMFailureMarker, ": ", "str(e)">>]
  ELSE [ score |-> IF reply.fit_score = NULL THEN 0 ELSE reply.fit_score[1],
         justification |->
           IF reply.justification = NULL
             THEN <<"Could not parse justification from LLM response.">>
             ELSE reply.justification[1] ]

(***************************************************************************)
(* rank_resumes                                                            *)
(***************************************************************************)
\* round(n / d) of Python for d > 0: to the nearest integer, a tie to the even one
RoundDiv(n, d) ==
  LET q == n \div d
      r == n % d
  IN  IF 2 * r < d THEN q
      ELSE IF 2 * r > d THEN q + 1
      ELSE IF q % 2 = 0 THEN q ELSE q + 1

\* 1 + round(similarity * 9, 1), in tenths, for a similarity in hundredths
SbertRating(similarity) == 10 + RoundDiv(9 * similarity, 10)

\* head(n - 1)
DfHeadOneShort(rows, n) == Slice(rows, 1, IF n - 1 < Len(rows) THEN n - 1 ELSE Len(rows))

\* DataFrame.head(n)
DfHead(rows, n) ==
  IF n >= 0 THEN Slice(rows, 1, IF n < Len(rows) THEN n ELSE Len(rows))
  ELSE Slice(rows, 1, Len(rows) + n)

\* sort_values(by=...) with the default ascending=True
SortValuesAscending(rows, by) ==
  LET n     == Len(rows)
      perms == {f \in [1..n -> 1..n] : \A i, j \in 1..n : f[i] = f[j] => i = j}
  IN  {[i \in 1..n |-> rows[f[i]]] :
         f \in {g \in perms :
                  \A i, j \in 1..n : i < j => rows[g[i]][by] <= rows[g[j]][by]}}

\* DataFrame.sort_values(by=..., ascending=False): the default sort is not
\* stable, so rows with equal keys may come out in any order
SortValuesDescending(rows, by) ==
  LET n     == Len(rows)
      perms == {f \in [1..n -> 1..n] : \A i, j \in 1..n : f[i] = f[j] => i = j}
  IN  {[i \in 1..n |-> rows[f[i]]] :
         f \in {g \in perms :
                  \A i, j \in 1..n : i < j => rows[g[i]][by] >= rows[g[j]][by]}}

\* sort_values(by="rating_10") with the default ascending=True
SortByRatingAscending(rows) == SortValuesAscending(rows, "rating_10")

\* final_df = final_df.sort_values(by="rating_10", ascending=False)
SortByRating(rows) == SortValuesDescending(rows, "rating_10")

\* df_filtered.sort_values(by="similarity", ascending=False)
SortBySimilarity(rows) == SortValuesDescending(rows, "similarity")

\* df_filtered.loc[:, "similarity"] = similarities
WithSimilarity(df_filtered, job_desc_text) ==
  [i \in 1..Len(df_filtered) |->
     [ ID          |-> df_filtered[i].ID,
       Resume_str  |-> df_filtered[i].Resume_str,
       email       |-> df_filtered[i].email,
       parsed_data |-> df_filtered[i].parsed_data,
       file_bytes  |-> df_filtered[i].file_bytes,
       fit_score   |-> df_filtered[i].fit_score,
       similarity  |-> CosineSimilarity(df_filtered[i].Resume_str, job_desc_text) ]]

\* df[df["ID"] == row["ID"]].iloc[0]
OriginalEntry(df, id) == df[Min({i \in 1..Len(df) : df[i].ID = id})]

\* ', '.join(matches)
JoinMatches(matches) == Join(matches, <<",", " ">>)

\* "Strong alignment on key terms like: {', '.join(matches).replace('_', ' ')}."
AlignmentSentence(matches) ==
  <<"Strong alignment on key terms like: ">>
  \o [i \in 1..Len(JoinMatches(matches)) |->
        IF JoinMatches(matches)[i] = "_" THEN " " ELSE JoinMatches(matches)[i]]
  \o <<".">>

FallbackPrefix == "LLM call failed. Falling back to SBERT => "

\* the rating taken from llm whatever use_llm says
RateIgnoringUseLlm(similarity, matches, use_llm, llm) ==
  [ rating_10 |-> llm.score, justification |-> llm.justification ]

\* rating_10 and justification of one candidate; llm is the result of the
\* call of get_llm_score_and_justification when use_llm
Rate(similarity, matches, use_llm, llm) ==
  IF use_llm
    THEN IF llm.score = 0 /\ LLMFailureMarker \in Range(llm.justification)
           THEN [ rating_10     |-> SbertRating(similarity),
                  justification |-> <<FallbackPrefix>> \o AlignmentSentence(matches) ]
           ELSE [ rating_10 |-> llm.score, justification |-> llm.justification ]
    ELSE [ rating_10     |-> SbertRating(similarity),
           justification |-> AlignmentSentence(matches) ]

\* the dict the loop body appends to final_top_resumes
RowDict(row, original_entry, matches, rated) ==
  [ ID            |-> row.ID,
    similarity    |-> row.similarity,
    email         |-> row.email,
    rating_10     |-> rated.rating_10,
    key_matches   |-> JoinMatches(matches),
    justification |-> rated.justification,
    skills        |-> original_entry.parsed_data.skills,
    experience    |-> original_entry.parsed_data.experience,
    education     |-> original_entry.parsed_data.education,
    fit_score     |-> rated.rating_10 ]

\* the loop body for one candidate, from the rating on
ScoredRow(row, original_entry, matches, use_llm, llm) ==
  RowDict(row, original_entry, matches, Rate(row.similarity, matches, use_llm, llm))

MsgNoModel == "SBERT model not loaded. Please ensure the model is downloaded."

MsgNoResumes == "No valid resumes uploaded or processed."

MsgSameAsNoResumes == "No valid resumes uploaded or processed."

MsgNoKeywordMatch == "No resumes found that match the specified keywords."

MsgNoCandidates == "No candidates found after filtering."

\* what rank_resumes returns: (None | DataFrame, None | message)
Returned(isNone, rows, message) ==
  [isNone |-> isNone, rows |-> rows, error |-> message]

(***************************************************************************)
(* State                                                                   *)
(***************************************************************************)
VARIABLES
  model,              \* load_model_once() returned a model (TRUE) or None
  parsed_resumes,     \* the table
  pc,                 \* "idle", or "returned" when rank_resumes has just returned
  args,               \* the arguments of the call of rank_resumes
  df,                 \* its local df
  df_filtered,        \* its local df_filtered, with the similarity column
  candidates_for_llm, \* its local candidates_for_llm
  llm_calls,          \* the calls of get_llm_score_and_justification it made
  returned            \* the pair it returned

vars == <<model, parsed_resumes, pc, args, df, df_filtered, candidates_for_llm,
          llm_calls, returned>>

\* An argument the run never read is recorded with the value given here.
Args(uploaded_resumes, job_desc_text, keywords, top_n, use_llm, api_key) ==
  [ uploaded_resumes |-> uploaded_resumes, job_desc_text |-> job_desc_text,
    keywords |-> keywords, top_n |-> top_n, use_llm |-> use_llm,
    api_key |-> api_key ]

NoArgs == Args(<<>>, <<>>, <<>>, 0, FALSE, <<>>)

NoReturn == Returned(TRUE, <<>>, NULL)

Init ==
  /\ model \in BOOLEAN
  /\ parsed_resumes = <<>>
  /\ pc = "idle"
  /\ args = NoArgs
  /\ df = <<>>
  /\ df_filtered = <<>>
  /\ candidates_for_llm = <<>>
  /\ llm_calls = <<>>
  /\ returned = NoReturn

\* the state in which rank_resumes returns
Return(table, a, data, filtered, candidates, calls, ret) ==
  /\ pc' = "returned"
  /\ parsed_resumes' = table
  /\ args' = a
  /\ df' = data
  /\ df_filtered' = filtered
  /\ candidates_for_llm' = candidates
  /\ llm_calls' = calls
  /\ returned' = ret
  /\ UNCHANGED model

\* a call for every candidate whatever use_llm says
LlmCallsWhateverUseLlm(a, data, candidates, llm) ==
  [i \in 1..Len(candidates) |->
     [ ID          |-> candidates[i].ID,
       resume_text |-> OriginalEntry(data, candidates[i].ID).Resume_str,
       api_key     |-> a.api_key,
       score       |-> llm[i].score,
       justification |-> llm[i].justification ]]

\* the calls of get_llm_score_and_justification the loop makes: one for each
\* candidate of candidates_for_llm, in the use_llm branch only
LlmCalls(a, data, candidates, llm) ==
  IF a.use_llm
    THEN [i \in 1..Len(candidates) |->
            [ ID          |-> candidates[i].ID,
              resume_text |-> OriginalEntry(data, candidates[i].ID).Resume_str,
              api_key     |-> a.api_key,
              score       |-> llm[i].score,
              justification |-> llm[i].justification ]]
    ELSE <<>>

\* the scoring loop and the final sort, for the selected candidates
ScoreAndReturn(table, a, data, filtered, candidates) ==
  \E matches \in {[i \in 1..Len(candidates) |->
                     extract_key_matches(
                       OriginalEntry(data, candidates[i].ID).Resume_str,
                       a.job_desc_text)]} :
  \E replies \in [1..(IF a.use_llm /\ a.api_key # <<>> THEN Len(candidates) ELSE 0)
                    -> LLMReplies] :
  \E llm \in {[i \in 1..Len(candidates) |->
                 get_llm_score_and_justification(
                   a.api_key, IF a.api_key # <<>> THEN replies[i] ELSE ReplyApiError)]} :
  \E calls \in {LlmCalls(a, data, candidates, llm)} :
  \E final_top_resumes \in
       {[i \in 1..Len(candidates) |->
           ScoredRow(candidates[i], OriginalEntry(data, candidates[i].ID),
                     matches[i], a.use_llm, llm[i])]} :
    IF final_top_resumes = <<>>
      THEN Return(table, a, data, filtered, candidates, calls,
                  Returned(FALSE, <<>>, <<MsgNoCandidates>>))
      ELSE \E final_df \in SortByRating(final_top_resumes) :
             Return(table, a, data, filtered, candidates, calls,
                    Returned(FALSE, final_df, NULL))

\* rank_resumes(job_desc_text, keywords, top_n, uploaded_resumes, model,
\*              api_key, use_llm, db_conn), from the call to the return
RankResumes ==
  /\ pc = "idle"
  /\ \E uploaded_resumes \in Batches :
       IF ~model
         THEN Return(parsed_resumes,
                     Args(uploaded_resumes, <<>>, <<>>, 0, FALSE, <<>>),
                     <<>>, <<>>, <<>>, <<>>, Returned(TRUE, <<>>, <<MsgNoModel>>))
       ELSE
         \E ingested \in {process_uploaded_files(uploaded_resumes, parsed_resumes)} :
           IF ingested.data = <<>>
             THEN Return(ingested.table,
                         Args(uploaded_resumes, <<>>, <<>>, 0, FALSE, <<>>),
                         <<>>, <<>>, <<>>, <<>>,
                         Returned(TRUE, <<>>, <<MsgNoResumes>>))
           ELSE
             \E job_desc_text \in JobDescs, keywords \in KeywordInputs :
             \E filtered \in {WithSimilarity(filter_resumes(ingested.data, keywords),
                                             job_desc_text)} :
               IF filtered = <<>>
                 THEN Return(ingested.table,
                             Args(uploaded_resumes, job_desc_text, keywords,
                                  0, FALSE, <<>>),
                             ingested.data, <<>>, <<>>, <<>>,
                             Returned(FALSE, <<>>, <<MsgNoKeywordMatch>>))
               ELSE
                 \E sorted \in SortBySimilarity(filtered) :
                 \E top_n \in TopNs, use_llm \in BOOLEAN :
                 \E api_key \in IF use_llm THEN ApiKeys ELSE {<<>>} :
                   ScoreAndReturn(
                     ingested.table,
                     Args(uploaded_resumes, job_desc_text, keywords, top_n,
                          use_llm, api_key),
                     ingested.data, filtered,
                     DfHead(sorted, IF top_n < Len(filtered) THEN top_n
                                    ELSE Len(filtered)))

\* the caller takes the returned pair; the locals of the call are gone
ReturnToCaller ==
  /\ pc = "returned"
  /\ pc' = "idle"
  /\ args' = NoArgs
  /\ df' = <<>>
  /\ df_filtered' = <<>>
  /\ candidates_for_llm' = <<>>
  /\ llm_calls' = <<>>
  /\ returned' = NoReturn
  /\ UNCHANGED <<model, parsed_resumes>>

\* the "Clear Database" button: DELETE FROM parsed_resumes
ClearDatabase ==
  /\ pc = "idle"
  /\ parsed_resumes' = <<>>
  /\ UNCHANGED <<model, pc, args, df, df_filtered, candidates_for_llm, llm_calls,
                 returned>>

Next == RankResumes \/ ReturnToCaller \/ ClearDatabase

Spec == Init /\ [][Next]_vars

(***************************************************************************)
(* Properties                                                              *)
(***************************************************************************)
AtReturn == pc = "returned"

\* the files of the call that the ingestion loop accepts
IngestibleFiles ==
  {i \in 1..Len(args.uploaded_resumes) : Ingestible(args.uploaded_resumes[i])}

RowsNamed(table, filename) == {i \in 1..Len(table) : table[i].filename = filename}

RankedRows == returned.rows

\* the run returned a ranked list
Ranked == AtReturn /\ ~returned.isNone /\ returned.rows # <<>>

\* C1: when rank_resumes returns a non-empty ranked list, the stored record
\* of every candidate of the list has fit_score equal to the candidate's final
\* rating.
C1_ScorePersisted ==
  Ranked =>
    \A i \in 1..Len(RankedRows) :
      \E j \in RowsNamed(parsed_resumes, RankedRows[i].ID) :
        parsed_resumes[j].fit_score = <<RankedRows[i].rating_10>>

\* the filenames a step ingests: those of the accepted files of a call that
\* got past the model check
StepIngests ==
  IF pc = "idle" /\ pc' = "returned" /\ model
    THEN {args'.uploaded_resumes[i].name :
            i \in {k \in 1..Len(args'.uploaded_resumes) :
                     Ingestible(args'.uploaded_resumes[k])}}
    ELSE {}

StepClears == pc = "idle" /\ pc' = "idle"

\* C2: the table holds at most one record per filename, and every step leaves
\* in it exactly the filenames ingested since the last clear: a call adds the
\* filenames it ingests to those already stored, a clear leaves none.
C2_OneRecordPerFilename ==
  [][ /\ \A i, j \in 1..Len(parsed_resumes') :
           parsed_resumes'[i].filename = parsed_resumes'[j].filename => i = j
      /\ Filenames(parsed_resumes') =
           IF StepClears THEN {} ELSE Filenames(parsed_resumes) \cup StepIngests
      /\ Len(parsed_resumes') = Cardinality(Filenames(parsed_resumes')) ]_vars

\* a call has ingested the same filename twice while another file was stored
C2_Witness ==
  /\ AtReturn
  /\ Len(df) = 2 /\ df[1].ID = df[2].ID
  /\ Len(parsed_resumes) = 2

\* the last entry the call ingested under a filename
LastEntry(filename) == df[Max({i \in 1..Len(df) : df[i].ID = filename})]

\* C3: after a call has ingested a file, the record stored under its filename
\* has the email, skills, experience, education, raw text and file bytes of the
\* latest file ingested under that filename, and its fit_score is null unless
\* the run has completed with a ranking of that filename.
C3_ReingestionOverwrites ==
  AtReturn =>
    \A i \in 1..Len(df) :
      /\ RowsNamed(parsed_resumes, df[i].ID) # {}
      /\ \A j \in RowsNamed(parsed_resumes, df[i].ID) :
           LET row  == parsed_resumes[j]
               last == LastEntry(df[i].ID)
           IN  /\ row.email = last.email
               /\ row.skills = last.parsed_data.skills
               /\ row.experience = last.parsed_data.experience
               /\ row.education = last.parsed_data.education
               /\ row.raw_text = last.Resume_str
               /\ row.file_bytes = last.file_bytes
               /\ \/ row.fit_score = NULL
                  \/ \E k \in 1..Len(RankedRows) : RankedRows[k].ID = row.filename

\* a file was ingested under a filename whose record held another content
C3_Witness ==
  /\ AtReturn
  /\ Len(df) = 2 /\ df[1].ID = df[2].ID /\ df[1].Resume_str # df[2].Resume_str
  /\ \E j \in RowsNamed(parsed_resumes, df[2].ID) :
       /\ parsed_resumes[j].raw_text = df[2].Resume_str
       /\ parsed_resumes[j].fit_score = NULL

\* the record of the last accepted file of the call with each filename is stored
AcceptedFilesStored ==
  \A i \in IngestibleFiles :
    LET name == args.uploaded_resumes[i].name
        last == Max({k \in IngestibleFiles : args.uploaded_resumes[k].name = name})
    IN  \E j \in RowsNamed(parsed_resumes, name) :
          parsed_resumes[j].file_bytes = args.uploaded_resumes[last].bytes

\* C4 as stated: whenever a call returns, every accepted file of the call is
\* stored, also when the run ended in the "model unavailable" abort.
C4_StoredHoweverTheRunEnds == AtReturn => AcceptedFilesStored

\* C4: when a call returns and the model is loaded, every accepted file of the
\* call is stored, whatever the outcome of the run; without a model the call
\* returns before the ingestion and the table stays empty.
C4_StoredUnlessModelUnavailable ==
  AtReturn =>
    IF model THEN AcceptedFilesStored ELSE parsed_resumes = <<>>

\* a call with an accepted file ended in the "no keyword matches" outcome
C4_Witness ==
  /\ AtReturn /\ model
  /\ IngestibleFiles # {}
  /\ returned.error = <<MsgNoKeywordMatch>>
  /\ parsed_resumes # <<>>

\* the LLM client signalled a failure in this call: no credential, an error of
\* the API call or of the parsing, or a reply without the keys
ClientFailed(call) ==
  /\ call.score = 0
  /\ \/ call.api_key = <<>>
     \/ LLMFailureMarker \in Range(call.justification)
     \/ call.justification = <<"Could not parse justification from LLM response.">>

\* C5: when use_llm is true and the LLM client signals a failure for a selected
\* candidate, the ranked list has that candidate with the rating
\* 1 + round(similarity*9, 1) and a justification marked as a fallback.
C5_FallbackOnEveryFailure ==
  (AtReturn /\ args.use_llm) =>
    \A i \in 1..Len(llm_calls) :
      ClientFailed(llm_calls[i]) =>
        /\ Ranked
        /\ \E k \in 1..Len(RankedRows) :
             /\ RankedRows[k].ID = candidates_for_llm[i].ID
             /\ RankedRows[k].similarity = candidates_for_llm[i].similarity
             /\ RankedRows[k].rating_10 = SbertRating(candidates_for_llm[i].similarity)
             /\ RankedRows[k].justification[1] = FallbackPrefix

\* C6: every candidate of a returned ranked list has a rating within [1, 10].
C6_RatingWithinScale ==
  Ranked =>
    \A k \in 1..Len(RankedRows) :
      RankedRows[k].rating_10 >= 10 /\ RankedRows[k].rating_10 <= 100

\* C7: each outcome has a message of its own, returned in that outcome and in
\* no other; "model unavailable" and "no valid resumes" return None with the
\* message, "no keyword matches" returns an empty DataFrame with the message,
\* and a run that scored candidates returns a non-empty DataFrame and no
\* message.
C7_DistinguishableOutcomes ==
  AtReturn =>
    /\ (returned.error = <<MsgNoModel>>) <=> ~model
    /\ (returned.error = <<MsgNoResumes>>) <=> (model /\ IngestibleFiles = {})
    /\ (returned.error = <<MsgNoKeywordMatch>>)
         <=> (model /\ df # <<>> /\ df_filtered = <<>>)
    /\ (~model \/ IngestibleFiles = {}) => (returned.isNone /\ returned.rows = <<>>)
    /\ (model /\ df # <<>> /\ df_filtered = <<>>)
         => (~returned.isNone /\ returned.rows = <<>>)
    /\ (returned.error = NULL /\ ~returned.isNone /\ returned.rows # <<>>)
         <=> (candidates_for_llm # <<>>)

\* a run ended in the "no keyword matches" outcome
C7_Witness ==
  /\ AtReturn
  /\ df # <<>> /\ df_filtered = <<>>
  /\ returned = Returned(FALSE, <<>>, <<MsgNoKeywordMatch>>)

\* C8: for top_n >= 1 and k >= 1 rows of df_filtered, the call returns
\* min(top_n, k) rows and no error; the returned rows are rows of df_filtered,
\* and no row left out has a greater similarity than a returned one.
C8_TopNBySimilarity ==
  (AtReturn /\ df_filtered # <<>> /\ args.top_n >= 1) =>
    LET k == Len(df_filtered)
        n == Len(RankedRows)
    IN  /\ ~returned.isNone /\ returned.error = NULL
        /\ n = (IF args.top_n < k THEN args.top_n ELSE k)
        /\ \E f \in [1..n -> 1..k] :
             /\ \A i, j \in 1..n : f[i] = f[j] => i = j
             /\ \A i \in 1..n :
                  /\ RankedRows[i].ID = df_filtered[f[i]].ID
                  /\ RankedRows[i].similarity = df_filtered[f[i]].similarity
             /\ \A j \in 1..k :
                  (\A i \in 1..n : f[i] # j) =>
                    \A i \in 1..n : df_filtered[j].similarity <= RankedRows[i].similarity

\* a row with a smaller similarity than the returned one was left out
C8_Witness ==
  /\ AtReturn /\ args.top_n = 1
  /\ Len(df_filtered) = 2 /\ Len(RankedRows) = 1
  /\ \E j \in 1..2 : df_filtered[j].similarity < RankedRows[1].similarity

\* C9: a returned ranked list is ordered by rating, descending.
C9_OrderedByRating ==
  Ranked =>
    \A k \in 1..(Len(RankedRows) - 1) :
      RankedRows[k].rating_10 >= RankedRows[k + 1].rating_10

\* the LLM ratings inverted the order of the similarities
C9_Witness ==
  /\ Ranked /\ args.use_llm
  /\ Len(RankedRows) = 2
  /\ RankedRows[1].similarity < RankedRows[2].similarity
  /\ RankedRows[1].rating_10 > RankedRows[2].rating_10

(***************************************************************************)
(* filter_resumes on its own: every keyword string of at most              *)
(* MaxKeywordLen characters of KeywordChars against every list of entries  *)
(* the ingestion of a batch can produce.                                   *)
(***************************************************************************)
MaxKeywordLen == 2

KeywordChars == {"p", "Y", ".", ",", " "}

KeywordStrings == UNION {[1..n -> KeywordChars] : n \in 0..MaxKeywordLen}

FilterInit ==
  /\ model = TRUE
  /\ parsed_resumes = <<>>
  /\ pc = "idle"
  /\ \E keywords \in KeywordStrings : args = Args(<<>>, <<>>, keywords, 0, FALSE, <<>>)
  /\ \E uploaded_resumes \in Batches :
       df = process_uploaded_files(uploaded_resumes, <<>>).data
  /\ df_filtered = <<>>
  /\ candidates_for_llm = <<>>
  /\ llm_calls = <<>>
  /\ returned = NoReturn

FilterResumes ==
  /\ pc = "idle"
  /\ pc' = "filtered"
  /\ df_filtered' = filter_resumes(df, args.keywords)
  /\ UNCHANGED <<model, parsed_resumes, args, df, candidates_for_llm, llm_calls,
                 returned>>

FilterNext == FilterResumes

FilterSpec == FilterInit /\ [][FilterNext]_vars

\* the text contains one of the comma-separated keywords, case-insensitively,
\* as a literal substring
ContainsAKeyword(resume_str, keywords) ==
  \E n \in 1..Len(Split(keywords, ",")) :
    Contains(Lower(resume_str), Lower(Strip(Split(keywords, ",")[n])))

\* C10: filter_resumes keeps exactly the resumes whose text contains, as a
\* literal substring and case-insensitively, one of the comma-separated
\* keywords; when the keyword string is empty or whitespace it removes none.
C10_KeepsLiteralMatches ==
  pc = "filtered" =>
    df_filtered =
      IF Strip(args.keywords) = <<>> THEN df
      ELSE SelectSeq(df, LAMBDA row : ContainsAKeyword(row.Resume_str, args.keywords))

\* C11: when use_llm is false, the rating of every returned candidate is
\* 1 + round(similarity*9, 1) of its own similarity (in tenths, of a similarity
\* in hundredths; 0.6 gives 6.4), so equal similarities get equal ratings and
\* a greater similarity never gets a smaller rating.
C11_RatingFromSimilarity ==
  (Ranked /\ ~args.use_llm) =>
    /\ \A k \in 1..Len(RankedRows) :
         /\ RankedRows[k].rating_10 = 10 + RoundDiv(9 * RankedRows[k].similarity, 10)
         /\ RankedRows[k].similarity = 60 => RankedRows[k].rating_10 = 64
    /\ \A i, j \in 1..Len(RankedRows) :
         /\ RankedRows[i].similarity = RankedRows[j].similarity
              => RankedRows[i].rating_10 = RankedRows[j].rating_10
         /\ RankedRows[i].similarity <= RankedRows[j].similarity
              => RankedRows[i].rating_10 <= RankedRows[j].rating_10

\* without the LLM, a candidate of similarity 0.6 was rated 6.4 next to a
\* candidate of another similarity
C11_Witness ==
  /\ Ranked /\ ~args.use_llm
  /\ Len(RankedRows) = 2
  /\ RankedRows[1].similarity # RankedRows[2].similarity
  /\ \E k \in 1..2 : RankedRows[k].similarity = 60 /\ RankedRows[k].rating_10 = 64

\* an entry that is null, of size zero, or named neither .txt nor .pdf
Skipped(resume) ==
  \/ resume.isNone
  \/ Len(resume.bytes) = 0
  \/ ~(IsTxt(resume.name) \/ IsPdf(resume.name))

\* the positions of the call's batch that are not skipped, in order
KeptPositions ==
  SelectSeq([i \in 1..Len(args.uploaded_resumes) |-> i],
            LAMBDA i : ~Skipped(args.uploaded_resumes[i]))

\* C12: a record is stored only for a non-empty .txt or .pdf file; when a call
\* that ingested returns, df has one candidate for each entry of the batch
\* that is not skipped, in the order of the batch, and none for a skipped
\* one; each of those files is stored; and the call does not end in "no valid
\* resumes" when the batch has a file that is not skipped.
C12_SkippedSilently ==
  /\ \A j \in 1..Len(parsed_resumes) :
       /\ IsTxt(parsed_resumes[j].filename) \/ IsPdf(parsed_resumes[j].filename)
       /\ parsed_resumes[j].file_bytes # <<>>
  /\ (AtReturn /\ model) =>
       /\ Len(df) = Len(KeptPositions)
       /\ \A k \in 1..Len(KeptPositions) :
            /\ df[k].ID = args.uploaded_resumes[KeptPositions[k]].name
            /\ df[k].file_bytes = args.uploaded_resumes[KeptPositions[k]].bytes
            /\ \E j \in RowsNamed(parsed_resumes, df[k].ID) :
                 parsed_resumes[j].file_bytes = LastEntry(df[k].ID).file_bytes
       /\ (returned.error = <<MsgNoResumes>>) <=> (KeptPositions = <<>>)

\* a file of an unsupported type came before a file that was ingested
C12_Witness ==
  /\ AtReturn /\ model
  /\ Len(args.uploaded_resumes) = 2
  /\ args.uploaded_resumes[1].name = NameDoc
  /\ Len(df) = 1 /\ df[1].ID = args.uploaded_resumes[2].name
  /\ Len(parsed_resumes) = 1 /\ parsed_resumes[1].filename = df[1].ID

(***************************************************************************)
(* The text extraction in a run: the caller of app.py (keywords "", top_n  *)
(* 10, no LLM) ranks every batch of at most MaxBatch files of              *)
(* ExtractionFiles.                                                        *)
(***************************************************************************)
ExtractInit ==
  /\ model = TRUE
  /\ parsed_resumes = <<>>
  /\ pc = "idle"
  /\ \E uploaded_resumes \in ExtractionBatches, job_desc_text \in JobDescs :
       args = Args(uploaded_resumes, job_desc_text, <<>>, 10, FALSE, <<>>)
  /\ df = <<>>
  /\ df_filtered = <<>>
  /\ candidates_for_llm = <<>>
  /\ llm_calls = <<>>
  /\ returned = NoReturn

\* rank_resumes with the arguments of args, model loaded
RankUploaded ==
  /\ pc = "idle"
  /\ \E ingested \in {process_uploaded_files(args.uploaded_resumes, parsed_resumes)} :
       IF ingested.data = <<>>
         THEN Return(ingested.table, args, <<>>, <<>>, <<>>, <<>>,
                     Returned(TRUE, <<>>, <<MsgNoResumes>>))
       ELSE
         \E filtered \in {WithSimilarity(filter_resumes(ingested.data, args.keywords),
                                         args.job_desc_text)} :
           IF filtered = <<>>
             THEN Return(ingested.table, args, ingested.data, <<>>, <<>>, <<>>,
                         Returned(FALSE, <<>>, <<MsgNoKeywordMatch>>))
           ELSE
             \E sorted \in SortBySimilarity(filtered) :
               ScoreAndReturn(ingested.table, args, ingested.data, filtered,
                              DfHead(sorted, IF args.top_n < Len(filtered)
                                               THEN args.top_n ELSE Len(filtered)))

ExtractNext == RankUploaded

ExtractSpec == ExtractInit /\ [][ExtractNext]_vars

\* C13: when the run returns, every file of the batch is a candidate with a
\* text that is not empty: for a PDF that pdfplumber cannot open the text is
\* what PyPDF2 reads, and "No content" when PyPDF2 cannot read it either or
\* when no text is read; a .txt file without text gives "No content"; and
\* every candidate is in the ranked list, which comes with no error.
C13_ExtractionNeverFails ==
  AtReturn =>
    /\ Len(df) = Len(args.uploaded_resumes)
    /\ \A k \in 1..Len(df) :
         LET file == args.uploaded_resumes[k]
             read == Strip(IF IsPdf(file.name) THEN PdfPagesText(file.bytes)
                                               ELSE Decode(file.bytes))
         IN  /\ df[k].ID = file.name
             /\ df[k].Resume_str # <<>>
             /\ df[k].Resume_str =
                  IF IsPdf(file.name) /\ PdfPlumberRaises(file.bytes)
                                      /\ PyPDF2Raises(file.bytes)
                    THEN NoContent
                  ELSE IF read = <<>> THEN NoContent ELSE read
             /\ \E j \in 1..Len(RankedRows) : RankedRows[j].ID = file.name
    /\ df # <<>> =>
         /\ ~returned.isNone /\ returned.error = NULL
         /\ Len(RankedRows) = Len(df)

\* a PDF that neither backend can read was ranked, with the text "No
\* content", next to a PDF that only the second backend can read
C13_Witness ==
  /\ AtReturn
  /\ Len(df) = 2 /\ Len(RankedRows) = 2
  /\ df[1].file_bytes = BytesPdfCorrupt /\ df[1].Resume_str = NoContent
  /\ df[2].file_bytes = BytesPdfDamaged /\ df[2].Resume_str = <<"G","o">>

(***************************************************************************)
(* The section parser on its own, on the documents made of: an optional    *)
(* first line, an optional EDUCATION heading (or its synonym), at most     *)
(* MaxContentLines content lines, and an optional part that starts with    *)
(* another heading of ALL_SECTIONS.                                        *)
(***************************************************************************)
MaxContentLines == 2

HeadingEducation == <<"E","D","U","C","A","T","I","O","N">>

HeadingAcademic ==
  <<"A","C","A","D","E","M","I","C"," ","Q","U","A","L","I","F","I","C","A","T","I","O","N","S">>

ContentLines == {<<"a">>, <<"b"," ","c">>, <<"D","e","g","r","e","e"," ","2","0","2","0">>}

FirstLines == {<<>>, <<<<"x">>>>}

Headings == {<<>>, <<HeadingEducation>>, <<HeadingAcademic>>}

Contents == UNION {[1..n -> ContentLines] : n \in 0..MaxContentLines}

FollowingParts ==
  { <<>>,
    <<<<"P","R","O","J","E","C","T","S">>, <<"z">>>>,
    <<<<"S","K","I","L","L","S">>, <<"G","o">>>> }

\* the document: its lines joined by line breaks
DocumentText(d) == Join(d.first \o d.heading \o d.content \o d.following, <<"\n">>)

SectionInit ==
  /\ model = TRUE
  /\ parsed_resumes = <<>>
  /\ pc = "idle"
  /\ \E first \in FirstLines, heading \in Headings, content \in Contents,
        following \in FollowingParts :
       args = [first |-> first, heading |-> heading, content |-> content,
               following |-> following]
  /\ df = <<>>
  /\ df_filtered = <<>>
  /\ candidates_for_llm = <<>>
  /\ llm_calls = <<>>
  /\ returned = NoReturn

\* education_text of parse_resume_sections, and what the function returns
ParseSections ==
  /\ pc = "idle"
  /\ pc' = "parsed"
  /\ returned' =
       [ education_text |-> FirstFound(DocumentText(args),
                                       <<HeadingEducation, HeadingAcademic>>),
         parsed_data    |-> parse_resume_sections(DocumentText(args)) ]
  /\ UNCHANGED <<model, parsed_resumes, args, df, df_filtered, candidates_for_llm,
                 llm_calls>>

SectionNext == ParseSections

SectionSpec == SectionInit /\ [][SectionNext]_vars

\* C14: for a document with the EDUCATION heading (or its synonym), content
\* lines and then either another heading of ALL_SECTIONS or the end of the
\* document, the education section is the content lines, all of them and
\* nothing else; for a document without the heading the education field is
\* "Not specified"; and no field of the parsed sections is empty.
C14_SectionBetweenHeadings ==
  pc = "parsed" =>
    /\ (args.heading # <<>> /\ args.content # <<>>)
         => returned.education_text = Join(args.content, <<"\n">>)
    /\ args.heading = <<>> => returned.parsed_data.education = NotSpecified
    /\ returned.parsed_data.education # <<>>
    /\ returned.parsed_data.experience # <<>>
    /\ returned.parsed_data.skills # <<>>

\* a ranked row and an ingested file of its filename that it is derived from
\* in full: similarity, email, key matches and the three parsed sections
DerivedFrom(row, entry) ==
  /\ entry.ID = row.ID
  /\ row.similarity = CosineSimilarity(entry.Resume_str, args.job_desc_text)
  /\ row.email = entry.email
  /\ row.key_matches =
       JoinMatches(extract_key_matches(entry.Resume_str, args.job_desc_text))
  /\ row.skills = entry.parsed_data.skills
  /\ row.experience = entry.parsed_data.experience
  /\ row.education = entry.parsed_data.education

\* C15: for any batch, two files of one filename included, every ranked row
\* is derived from one uploaded file (its key matches, the text given to the
\* LLM and its skills, experience and education come from the file whose
\* similarity and email it carries), and it agrees with the record stored
\* under its filename.
C15_RowFromOneFile ==
  AtReturn =>
    /\ \A k \in 1..Len(RankedRows) :
         /\ \E i \in 1..Len(df) : DerivedFrom(RankedRows[k], df[i])
         /\ \A j \in RowsNamed(parsed_resumes, RankedRows[k].ID) :
              /\ parsed_resumes[j].email = RankedRows[k].email
              /\ parsed_resumes[j].skills = RankedRows[k].skills
              /\ parsed_resumes[j].experience = RankedRows[k].experience
              /\ parsed_resumes[j].education = RankedRows[k].education
    /\ \A c \in 1..Len(llm_calls) :
         \E i \in 1..Len(df) :
           /\ df[i].ID = candidates_for_llm[c].ID
           /\ df[i].email = candidates_for_llm[c].email
           /\ candidates_for_llm[c].similarity =
                CosineSimilarity(df[i].Resume_str, args.job_desc_text)
           /\ llm_calls[c].resume_text = df[i].Resume_str

\* C16: get_llm_score_and_justification is called only for the candidates the
\* similarity selection kept, once for each and in their order, so at most
\* min(top_n, rows that passed the filter) times; it is not called when
\* use_llm is false, nor in a run that ends with the model unavailable, with
\* no valid resume or with no keyword match.
C16_LlmOnlyForSelected ==
  AtReturn =>
    /\ Len(llm_calls) <= Len(candidates_for_llm)
    /\ Len(candidates_for_llm) <= Min({args.top_n, Len(df_filtered)})
    /\ \A i \in 1..Len(llm_calls) : llm_calls[i].ID = candidates_for_llm[i].ID
    /\ ~args.use_llm => llm_calls = <<>>
    /\ returned.error \in {<<MsgNoModel>>, <<MsgNoResumes>>, <<MsgNoKeywordMatch>>}
         => llm_calls = <<>>

\* a run with the LLM on in which the filter kept two rows and top_n = 1 kept
\* one of them: one call
C16_Witness ==
  /\ AtReturn
  /\ args.use_llm
  /\ args.api_key # <<>>
  /\ Len(df_filtered) = 2
  /\ args.top_n = 1
  /\ Len(llm_calls) = 1

====
